---- MODULE Spec2Model ----
(***************************************************************************)
(* bananakyu: job-application tracker.                                     *)
(*                                                                         *)
(* Eight specifications over one set of variables:                          *)
(*   Spec        the dashboard page (app/(dashboards)/dashboard/page.tsx): *)
(*               the mock job collection, the board/list switch, the       *)
(*               table's sort state and the status-change handler as the   *)
(*               two views call it; the board and the rows are derived     *)
(*               from that state on every render;                          *)
(*   SpecKanban  KanbanBoard.jobsByStatus applied to any jobs prop;        *)
(*   SpecTable   JobsTable.sortedJobs applied to any jobs prop, sort field *)
(*               and direction, on either Array.prototype.sort engine;     *)
(*   SpecHandler handleStatusChange applied to any (jobId, newStatus);     *)
(*   SpecUpdates status-change requests as React queues and processes      *)
(*               their setJobs updaters;                                   *)
(*   SpecStore   the relational schema (server/db/schema.ts): auth.users,  *)
(*               profiles and jobs with their keys, defaults and cascades; *)
(*   SpecAuth    the auth hooks (hooks/use-auth.ts), the sign-up form and  *)
(*               the procedures of authRouter they call;                   *)
(*   SpecAlert   DismissibleAlert under re-renders and dismiss clicks.     *)
(***************************************************************************)
EXTENDS Integers, Sequences, FiniteSets, TLC

VARIABLES
    jobs,           \* DashboardPage state `jobs` / the `jobs` prop of a view
    view,           \* DashboardPage state `view`
    sortField,      \* JobsTable state
    sortDirection,  \* JobsTable state
    engine,         \* which Array.prototype.sort the runtime provides
    grouped,        \* value of KanbanBoard.jobsByStatus (component harness)
    rows,           \* value of JobsTable.sortedJobs (component harness)
    call,           \* last handler call and how it ended
    pc,             \* phase of a component harness
    authUsers,      \* table auth.users (ids)
    profiles,       \* table profiles (ids)
    jobsTable,      \* table jobs (rows)
    last,           \* last store statement and its outcome
    pending,        \* React's queue of setJobs updaters not yet processed
    applied,        \* the status-change requests processed so far, in order
    auth,           \* the client's auth hooks, the sign-up form and the requests
    alert           \* a DismissibleAlert: its props and its state

vars == <<jobs, view, sortField, sortDirection, engine, grouped, rows,
          call, pc, authUsers, profiles, jobsTable, last, pending, applied,
          auth, alert>>

uiVars    == <<jobs, view, sortField, sortDirection, engine, grouped, rows, call, pc>>
storeVars == <<authUsers, profiles, jobsTable, last>>
queueVars == <<pending, applied>>
clientVars == <<auth, alert>>

(***************************************************************************)
(* Bounds                                                                  *)
(***************************************************************************)
MaxMoved == 1
MaxJobs == 3

(***************************************************************************)
(* Status pipeline                                                         *)
(***************************************************************************)
\* null / absent value of an optional column or prop
NULL == "<null>"

\* the table's STATUS_CONFIG without the entry of the last status
TABLE_STATUS_CONFIG_short ==
    [APPLYING |-> [label |-> "To Apply", color |-> "bg-muted"],
     APPLIED |-> [label |-> "Applied", color |-> "bg-blue-500/10 text-blue-700"],
     FOR_INTERVIEW |-> [label |-> "For Interview", color |-> "bg-purple-500/10 text-purple-700"],
     INTERVIEWING |-> [label |-> "Interviewing", color |-> "bg-primary/10 text-primary"],
     OFFER |-> [label |-> "Offer", color |-> "bg-secondary/10 text-secondary-foreground"],
     NEGOTIATING |-> [label |-> "Negotiating", color |-> "bg-yellow-500/10 text-yellow-700"],
     HIRED |-> [label |-> "Hired", color |-> "bg-green-500/10 text-green-700"],
     ON_HOLD |-> [label |-> "On Hold", color |-> "bg-gray-500/10 text-gray-700"],
     REJECTED |-> [label |-> "Rejected", color |-> "bg-red-500/10 text-red-700"],
     NO_RESPONSE |-> [label |-> "No Response", color |-> "bg-orange-500/10 text-orange-700"]]

\* STATUS_CONFIG of the kanban board: status -> label and color
STATUS_CONFIG ==
    [APPLYING |-> [label |-> "To Apply", color |-> "bg-muted"],
     APPLIED |-> [label |-> "Applied", color |-> "bg-blue-500/10 text-blue-700"],
     FOR_INTERVIEW |-> [label |-> "For Interview", color |-> "bg-purple-500/10 text-purple-700"],
     INTERVIEWING |-> [label |-> "Interviewing", color |-> "bg-primary/10 text-primary"],
     OFFER |-> [label |-> "Offer", color |-> "bg-secondary/10 text-secondary-foreground"],
     NEGOTIATING |-> [label |-> "Negotiating", color |-> "bg-yellow-500/10 text-yellow-700"],
     HIRED |-> [label |-> "Hired", color |-> "bg-green-500/10 text-green-700"],
     ON_HOLD |-> [label |-> "On Hold", color |-> "bg-gray-500/10 text-gray-700"],
     REJECTED |-> [label |-> "Rejected", color |-> "bg-red-500/10 text-red-700"],
     NO_RESPONSE |-> [label |-> "No Response", color |-> "bg-orange-500/10 text-orange-700"],
     WITHDRAW |-> [label |-> "Withdrawn", color |-> "bg-gray-500/10 text-gray-700"]]

\* STATUS_CONFIG of the table: the same literal, declared again in its file
TABLE_STATUS_CONFIG ==
    [APPLYING |-> [label |-> "To Apply", color |-> "bg-muted"],
     APPLIED |-> [label |-> "Applied", color |-> "bg-blue-500/10 text-blue-700"],
     FOR_INTERVIEW |-> [label |-> "For Interview", color |-> "bg-purple-500/10 text-purple-700"],
     INTERVIEWING |-> [label |-> "Interviewing", color |-> "bg-primary/10 text-primary"],
     OFFER |-> [label |-> "Offer", color |-> "bg-secondary/10 text-secondary-foreground"],
     NEGOTIATING |-> [label |-> "Negotiating", color |-> "bg-yellow-500/10 text-yellow-700"],
     HIRED |-> [label |-> "Hired", color |-> "bg-green-500/10 text-green-700"],
     ON_HOLD |-> [label |-> "On Hold", color |-> "bg-gray-500/10 text-gray-700"],
     REJECTED |-> [label |-> "Rejected", color |-> "bg-red-500/10 text-red-700"],
     NO_RESPONSE |-> [label |-> "No Response", color |-> "bg-orange-500/10 text-orange-700"],
     WITHDRAW |-> [label |-> "Withdrawn", color |-> "bg-gray-500/10 text-gray-700"]]

\* the keys with one more status than the enumeration has
STATUS_CONFIG_KEYS_extra ==
    <<"APPLYING", "APPLIED", "FOR_INTERVIEW", "INTERVIEWING", "OFFER", "NEGOTIATING",
      "HIRED", "ON_HOLD", "REJECTED", "NO_RESPONSE", "WITHDRAW", "ARCHIVED">>

\* Object.keys(STATUS_CONFIG): insertion order of the literal
STATUS_CONFIG_KEYS ==
    <<"APPLYING", "APPLIED", "FOR_INTERVIEW", "INTERVIEWING", "OFFER",
      "NEGOTIATING", "HIRED", "ON_HOLD", "REJECTED", "NO_RESPONSE", "WITHDRAW">>

JobStatus == { STATUS_CONFIG_KEYS[i] : i \in DOMAIN STATUS_CONFIG_KEYS }

\* an enumeration that spells WITHDRAW as WITHDRAWN
jobStatusEnum_withdrawn ==
    {"APPLYING", "APPLIED", "FOR_INTERVIEW", "INTERVIEWING", "OFFER", "REJECTED",
     "NO_RESPONSE", "WITHDRAWN", "HIRED", "NEGOTIATING", "ON_HOLD"}

\* pgEnum("job_status", [...])
jobStatusEnum ==
    {"APPLYING", "APPLIED", "FOR_INTERVIEW", "INTERVIEWING", "OFFER", "REJECTED",
     "NO_RESPONSE", "WITHDRAW", "HIRED", "NEGOTIATING", "ON_HOLD"}

(***************************************************************************)
(* Strings as UTF-16 code units (what `<` and toLowerCase work on)         *)
(***************************************************************************)
Units(s) ==
    CASE s = "" -> <<>>
      [] s = "Google" -> <<71, 111, 111, 103, 108, 101>>
      [] s = "Meta" -> <<77, 101, 116, 97>>
      [] s = "Amazon" -> <<65, 109, 97, 122, 111, 110>>
      [] s = "Netflix" -> <<78, 101, 116, 102, 108, 105, 120>>
      [] s = "Apple" -> <<65, 112, 112, 108, 101>>
      [] s = "Senior Software Engineer" -> <<83, 101, 110, 105, 111, 114, 32, 83, 111, 102, 116, 119, 97, 114, 101, 32, 69, 110, 103, 105, 110, 101, 101, 114>>
      [] s = "Frontend Developer" -> <<70, 114, 111, 110, 116, 101, 110, 100, 32, 68, 101, 118, 101, 108, 111, 112, 101, 114>>
      [] s = "Full Stack Engineer" -> <<70, 117, 108, 108, 32, 83, 116, 97, 99, 107, 32, 69, 110, 103, 105, 110, 101, 101, 114>>
      [] s = "Software Engineer" -> <<83, 111, 102, 116, 119, 97, 114, 101, 32, 69, 110, 103, 105, 110, 101, 101, 114>>
      [] s = "iOS Developer" -> <<105, 79, 83, 32, 68, 101, 118, 101, 108, 111, 112, 101, 114>>
      [] s = "APPLYING" -> <<65, 80, 80, 76, 89, 73, 78, 71>>
      [] s = "APPLIED" -> <<65, 80, 80, 76, 73, 69, 68>>
      [] s = "FOR_INTERVIEW" -> <<70, 79, 82, 95, 73, 78, 84, 69, 82, 86, 73, 69, 87>>
      [] s = "INTERVIEWING" -> <<73, 78, 84, 69, 82, 86, 73, 69, 87, 73, 78, 71>>
      [] s = "OFFER" -> <<79, 70, 70, 69, 82>>
      [] s = "NEGOTIATING" -> <<78, 69, 71, 79, 84, 73, 65, 84, 73, 78, 71>>
      [] s = "HIRED" -> <<72, 73, 82, 69, 68>>
      [] s = "ON_HOLD" -> <<79, 78, 95, 72, 79, 76, 68>>
      [] s = "REJECTED" -> <<82, 69, 74, 69, 67, 84, 69, 68>>
      [] s = "NO_RESPONSE" -> <<78, 79, 95, 82, 69, 83, 80, 79, 78, 83, 69>>
      [] s = "WITHDRAW" -> <<87, 73, 84, 72, 68, 82, 65, 87>>
      [] s = "acme" -> <<97, 99, 109, 101>>
      [] s = "Acme" -> <<65, 99, 109, 101>>
      [] s = "ACME" -> <<65, 67, 77, 69>>
      [] s = "Zeta" -> <<90, 101, 116, 97>>
      [] s = "beta" -> <<98, 101, 116, 97>>

\* String.prototype.toLowerCase on ASCII: A..Z (65..90) become a..z
toLowerCase(u) == [i \in 1..Len(u) |-> IF u[i] >= 65 /\ u[i] <= 90 THEN u[i] + 32 ELSE u[i]]

\* the relational `<` of two strings: at the first index where they differ u has
\* the smaller code unit, or u has ended there and v has not
StrLess(u, v) ==
    \E k \in 1..(Len(v)) :
        /\ k <= Len(u) + 1
        /\ \A j \in 1..(k - 1) : u[j] = v[j]
        /\ (k = Len(u) + 1 \/ u[k] < v[k])

(***************************************************************************)
(* DashboardPage                                                           *)
(***************************************************************************)
\* createdAt holds the instant of the Date as days since the epoch
MOCK_JOBS ==
    << [id |-> "1", company |-> "Google", position |-> "Senior Software Engineer",
        status |-> "INTERVIEWING", salary |-> "$150k - $200k",
        note |-> "Phone screen scheduled for next week", createdAt |-> 19737],
       [id |-> "2", company |-> "Meta", position |-> "Frontend Developer",
        status |-> "APPLIED", salary |-> "$140k - $180k",
        note |-> NULL, createdAt |-> 19742],
       [id |-> "3", company |-> "Amazon", position |-> "Full Stack Engineer",
        status |-> "FOR_INTERVIEW", salary |-> "$130k - $170k",
        note |-> "Recruiter reached out", createdAt |-> 19740],
       [id |-> "4", company |-> "Netflix", position |-> "Software Engineer",
        status |-> "OFFER", salary |-> "$160k - $210k",
        note |-> "Offer received! Negotiating", createdAt |-> 19732],
       [id |-> "5", company |-> "Apple", position |-> "iOS Developer",
        status |-> "REJECTED", salary |-> "$145k - $185k",
        note |-> "Not a good fit", createdAt |-> 19727] >>

\* a handler that treats REJECTED as final
handleStatusChange_final(prevJobs, jobId, newStatus) ==
    [i \in DOMAIN prevJobs |->
        IF prevJobs[i].id = jobId /\ prevJobs[i].status # "REJECTED"
        THEN [prevJobs[i] EXCEPT !.status = newStatus]
        ELSE prevJobs[i]]

\* a handler that rebuilds the job without spreading its optional fields
handleStatusChange_rebuild(prevJobs, jobId, newStatus) ==
    [i \in DOMAIN prevJobs |->
        IF prevJobs[i].id = jobId
        THEN [prevJobs[i] EXCEPT !.status = newStatus, !.salary = NULL, !.note = NULL]
        ELSE prevJobs[i]]

\* a handler that moves the changed job to the end of the collection
handleStatusChange_moveLast(prevJobs, jobId, newStatus) ==
    SelectSeq(prevJobs, LAMBDA job : job.id # jobId)
        \o [i \in 1..Len(SelectSeq(prevJobs, LAMBDA job : job.id = jobId)) |->
              [SelectSeq(prevJobs, LAMBDA job : job.id = jobId)[i]
                  EXCEPT !.status = newStatus]]

\* prevJobs.map(job => job.id === jobId ? { ...job, status: newStatus } : job)
handleStatusChange(prevJobs, jobId, newStatus) ==
    [i \in DOMAIN prevJobs |->
        IF prevJobs[i].id = jobId
        THEN [prevJobs[i] EXCEPT !.status = newStatus]
        ELSE prevJobs[i]]

\* an update computed from the jobs of the render the handler was created in
setJobsUpdater_stale(renderedJobs, prevJobs, jobId, newStatus) ==
    handleStatusChange(renderedJobs, jobId, newStatus)

\* setJobs((prevJobs) => ...): the updater gets the state the queue has reached
\* (prevJobs), not the jobs of the render the handler closed over (renderedJobs)
setJobsUpdater(renderedJobs, prevJobs, jobId, newStatus) ==
    handleStatusChange(prevJobs, jobId, newStatus)

(***************************************************************************)
(* KanbanBoard                                                             *)
(***************************************************************************)
\* the columns in the order the database enumeration lists the statuses
columns_schemaOrder ==
    <<"APPLYING", "APPLIED", "FOR_INTERVIEW", "INTERVIEWING", "OFFER", "REJECTED",
      "NO_RESPONSE", "WITHDRAW", "HIRED", "NEGOTIATING", "ON_HOLD">>

\* const columns = Object.keys(STATUS_CONFIG) as JobStatus[]
columns == STATUS_CONFIG_KEYS

\* the literal that `grouped` starts from: eleven keys, each an empty array
emptyGrouped ==
    [APPLYING |-> <<>>, APPLIED |-> <<>>, FOR_INTERVIEW |-> <<>>, INTERVIEWING |-> <<>>,
     OFFER |-> <<>>, NEGOTIATING |-> <<>>, HIRED |-> <<>>, ON_HOLD |-> <<>>,
     REJECTED |-> <<>>, NO_RESPONSE |-> <<>>, WITHDRAW |-> <<>>]

\* a loop that assigns the bucket instead of pushing to it
RECURSIVE forEachAssign(_, _, _)
forEachAssign(js, i, g) ==
    IF i > Len(js) THEN g
    ELSE forEachAssign(js, i + 1, [g EXCEPT ![js[i].status] = <<js[i]>>])

\* a loop that puts each job at the front of its bucket
RECURSIVE forEachUnshift(_, _, _)
forEachUnshift(js, i, g) ==
    IF i > Len(js) THEN g
    ELSE forEachUnshift(js, i + 1, [g EXCEPT ![js[i].status] = <<js[i]>> \o @])

\* jobs.forEach(job => grouped[job.status].push(job)), from index i on
RECURSIVE forEachPush(_, _, _)
forEachPush(js, i, g) ==
    IF i > Len(js) THEN g
    ELSE forEachPush(js, i + 1, [g EXCEPT ![js[i].status] = Append(@, js[i])])

\* a grouping that only has the keys that occur in the input
jobsByStatus_sparse(js) ==
    [s \in { js[i].status : i \in DOMAIN js } |->
        SelectSeq(js, LAMBDA job : job.status = s)]

jobsByStatus(js) == forEachPush(js, 1, emptyGrouped)

(***************************************************************************)
(* JobsTable                                                               *)
(***************************************************************************)
SortFields == {"company", "position", "status", "createdAt"}
SortDirections == {"asc", "desc"}

\* !value: the empty string and null are falsy, a Date object never is
Falsy(value, field) == field # "createdAt" /\ (value = "" \/ value = NULL)

\* new Date(v).getTime(): the instant as a number (seconds here, days in the record)
getTime(d) == d * 86400

\* the comparable value without the case folding
comparable_raw(value, field) ==
    IF field = "createdAt" THEN getTime(value) ELSE Units(value)

\* the comparable value of a present field: the instant, or the lower-cased string
comparable(value, field) ==
    IF field = "createdAt" THEN getTime(value) ELSE toLowerCase(Units(value))

\* aValue < bValue on two numbers or on two strings
less(x, y, field) == IF field = "createdAt" THEN x < y ELSE StrLess(x, y)

\* a comparator that orders ascending whatever the direction
compareFn_ignoreDirection(a, b, field, direction) ==
    IF Falsy(a[field], field) THEN 1
    ELSE IF Falsy(b[field], field) THEN -1
    ELSE CHOOSE order \in
            { IF less(aValue, bValue, field) THEN -1
              ELSE IF less(bValue, aValue, field) THEN 1
              ELSE 0
              : aValue \in {comparable(a[field], field)},
                bValue \in {comparable(b[field], field)} }
            : TRUE

\* a comparator that puts a missing value on the side the direction gives it
compareFn_missingByDirection(a, b, field, direction) ==
    IF Falsy(a[field], field) /\ Falsy(b[field], field) THEN 0
    ELSE IF Falsy(a[field], field) THEN (IF direction = "asc" THEN -1 ELSE 1)
    ELSE IF Falsy(b[field], field) THEN (IF direction = "asc" THEN 1 ELSE -1)
    ELSE CHOOSE order \in
            { IF less(aValue, bValue, field) THEN (IF direction = "asc" THEN -1 ELSE 1)
              ELSE IF less(bValue, aValue, field) THEN (IF direction = "asc" THEN 1 ELSE -1)
              ELSE 0
              : aValue \in {comparable(a[field], field)},
                bValue \in {comparable(b[field], field)} }
            : TRUE

\* the comparator handed to sort: a negative, zero or positive number
compareFn(a, b, field, direction) ==
    IF Falsy(a[field], field) THEN 1
    ELSE IF Falsy(b[field], field) THEN -1
    ELSE CHOOSE order \in
            { IF less(aValue, bValue, field) THEN (IF direction = "asc" THEN -1 ELSE 1)
              ELSE IF less(bValue, aValue, field) THEN (IF direction = "asc" THEN 1 ELSE -1)
              ELSE 0
              : aValue \in {comparable(a[field], field)},
                bValue \in {comparable(b[field], field)} }
            : TRUE

\* arr with the element at index from moved to index to (to <= from), the ones
\* between shifted one place up
MoveTo(arr, from, to) ==
    [k \in DOMAIN arr |->
        IF k < to \/ k > from THEN arr[k]
        ELSE IF k = to THEN arr[from]
        ELSE arr[k - 1]]

\* arr with its first n elements reversed
ReverseRange(arr, n) ==
    [k \in DOMAIN arr |-> IF k <= n THEN arr[n + 1 - k] ELSE arr[k]]

\* Array.prototype.sort calls the comparator in an order the engine chooses, and
\* the order of the result is implementation-defined when the comparator is not
\* consistent. Two engines are modelled:
\*   "timsort"    V8 from 7.0 (Node, Chromium): the run at the start is counted
\*                (reversed when strictly descending), the rest is inserted by
\*                binary search, comparefn(pivot, element);
\*   "insertion"  linear insertion sort, comparefn(element, pivot) > 0 shifts
\*                (V8 before 7.0 for short arrays, SpiderMonkey's self-hosted sort).
\* Arrays this short are below both engines' merge thresholds.
Engines == {"timsort", "insertion"}

\* last index of the run that starts at 1, examining index idx next
RECURSIVE RunEnd(_, _, _, _, _)
RunEnd(arr, idx, isDescending, field, direction) ==
    IF idx > Len(arr) THEN idx - 1
    ELSE LET order == compareFn(arr[idx], arr[idx - 1], field, direction)
         IN IF (isDescending /\ order >= 0) \/ (~isDescending /\ order < 0)
            THEN idx - 1
            ELSE RunEnd(arr, idx + 1, isDescending, field, direction)

\* binary search of the slot of pivot in arr[left .. right-1]
RECURSIVE BinarySlot(_, _, _, _, _, _)
BinarySlot(arr, pivot, left, right, field, direction) ==
    IF left >= right THEN left
    ELSE LET mid == left + ((right - left) \div 2)
         IN IF compareFn(pivot, arr[mid], field, direction) < 0
            THEN BinarySlot(arr, pivot, left, mid, field, direction)
            ELSE BinarySlot(arr, pivot, mid + 1, right, field, direction)

RECURSIVE BinaryInsertionSort(_, _, _, _)
BinaryInsertionSort(arr, start, field, direction) ==
    IF start > Len(arr) THEN arr
    ELSE CHOOSE sorted \in
            { BinaryInsertionSort(next, start + 1, field, direction) :
                next \in { MoveTo(arr, start,
                                  BinarySlot(arr, arr[start], 1, start, field, direction)) } }
            : TRUE

\* the run at the start of arr, made ascending, and its length
CountAndMakeRun(arr, field, direction) ==
    LET isDescending == compareFn(arr[2], arr[1], field, direction) < 0
    IN CHOOSE run \in
          { [array |-> IF isDescending THEN ReverseRange(arr, runLength) ELSE arr,
             length |-> runLength]
            : runLength \in { RunEnd(arr, 3, isDescending, field, direction) } }
          : TRUE

TimSort(arr, field, direction) ==
    IF Len(arr) < 2 THEN arr
    ELSE CHOOSE sorted \in
            { BinaryInsertionSort(run.array, run.length + 1, field, direction) :
                run \in { CountAndMakeRun(arr, field, direction) } }
            : TRUE

\* slot of element coming from index j+1, scanning down from j
RECURSIVE LinearSlot(_, _, _, _, _)
LinearSlot(arr, j, element, field, direction) ==
    IF j >= 1 /\ compareFn(arr[j], element, field, direction) > 0
    THEN LinearSlot(arr, j - 1, element, field, direction)
    ELSE j + 1

RECURSIVE InsertionSort(_, _, _, _)
InsertionSort(arr, i, field, direction) ==
    IF i > Len(arr) THEN arr
    ELSE CHOOSE sorted \in
            { InsertionSort(next, i + 1, field, direction) :
                next \in { MoveTo(arr, i, LinearSlot(arr, i - 1, arr[i], field, direction)) } }
            : TRUE

ArraySort(arr, field, direction, eng) ==
    IF eng = "timsort" THEN TimSort(arr, field, direction)
    ELSE InsertionSort(arr, 2, field, direction)

\* jobs.sort(cmp) without the copy: the prop itself is sorted
sortedJobs_inPlace(js, field, direction, eng) ==
    [input |-> ArraySort(js, field, direction, eng),
     output |-> ArraySort(js, field, direction, eng)]

\* useMemo(() => [...jobs].sort(cmp)): the prop as it is left, and the sorted copy
sortedJobs(js, field, direction, eng) ==
    [input |-> js, output |-> ArraySort(js, field, direction, eng)]

\* a handleSort that keeps the direction when another field is chosen
handleSort_keepDirection(curField, curDirection, field) ==
    IF curField = field
    THEN [field |-> curField, direction |-> IF curDirection = "asc" THEN "desc" ELSE "asc"]
    ELSE [field |-> field, direction |-> curDirection]

\* a handleSort whose toggle steps through asc, desc and back to the default field
handleSort_threeState(curField, curDirection, field) ==
    IF curField = field
    THEN (IF curDirection = "asc" THEN [field |-> curField, direction |-> "desc"]
          ELSE [field |-> "createdAt", direction |-> "asc"])
    ELSE [field |-> field, direction |-> "asc"]

\* handleSort: the next (sortField, sortDirection)
handleSort(curField, curDirection, field) ==
    IF curField = field
    THEN [field |-> curField, direction |-> IF curDirection = "asc" THEN "desc" ELSE "asc"]
    ELSE [field |-> field, direction |-> "asc"]

(***************************************************************************)
(* What the page derives from its state on every render                    *)
(***************************************************************************)
\* a count taken once from the initial collection
countWithStatus_initial(js, s) ==
    Cardinality({i \in DOMAIN MOCK_JOBS : MOCK_JOBS[i].status = s})

\* the statistics cards
totalApplications(js) == Len(js)
countWithStatus(js, s) == Cardinality({i \in DOMAIN js : js[i].status = s})

\* the four cards: Total Applications, Interviewing, Offers, Hired
statsCards(js) ==
    [total |-> totalApplications(js),
     interviewing |-> countWithStatus(js, "INTERVIEWING"),
     offers |-> countWithStatus(js, "OFFER"),
     hired |-> countWithStatus(js, "HIRED")]

\* columns.map(status => <KanbanColumn status jobs={jobsByStatus[status]} />):
\* the statuses of the columns the board renders, left to right
KanbanColumns(js) == [k \in DOMAIN columns |-> columns[k]]

\* cfg[status].label and cfg[status].color: a key the literal does not have
\* gives undefined, and reading a property of undefined throws
statusBadge(cfg, status) ==
    IF status \in DOMAIN cfg
    THEN [threw |-> "none", label |-> cfg[status].label, color |-> cfg[status].color]
    ELSE [threw |-> "TypeError"]

\* JobCard: const config = STATUS_CONFIG[job.status]
JobCardConfig(job) == statusBadge(STATUS_CONFIG, job.status)

\* the Badge of a table row: STATUS_CONFIG[job.status].color and .label
TableRowBadge(job) == statusBadge(TABLE_STATUS_CONFIG, job.status)

(***************************************************************************)
(* Spec: the dashboard page                                                *)
(***************************************************************************)
StoreIdle ==
    /\ authUsers = {}
    /\ profiles = {}
    /\ jobsTable = {}
    /\ last = NULL

QueueIdle ==
    /\ pending = <<>>
    /\ applied = <<>>

ClientIdle ==
    /\ auth = NULL
    /\ alert = NULL

Init ==
    /\ jobs = MOCK_JOBS
    /\ view = "kanban"
    /\ sortField = "createdAt"
    /\ sortDirection = "desc"
    /\ engine \in Engines
    /\ grouped = NULL
    /\ rows = NULL
    /\ call = NULL
    /\ pc = "dashboard"
    /\ StoreIdle
    /\ QueueIdle
    /\ ClientIdle

\* how many jobs are away from the status the mock collection gives them
Moved(js) == Cardinality({ i \in DOMAIN js : js[i].status # MOCK_JOBS[i].status })

\* a "Move to <label>" item of the menu of the i-th job, in either view
StatusChange(i, k) ==
    /\ pc = "dashboard"
    /\ Moved(handleStatusChange(jobs, jobs[i].id, STATUS_CONFIG_KEYS[k])) <= MaxMoved
    /\ jobs' = handleStatusChange(jobs, jobs[i].id, STATUS_CONFIG_KEYS[k])
    /\ UNCHANGED <<view, sortField, sortDirection, engine, grouped, rows, call, pc>>
    /\ UNCHANGED storeVars
    /\ UNCHANGED clientVars
    /\ UNCHANGED queueVars

\* the Board / List buttons; JobsTable is mounted with its initial sort state
SetView(v) ==
    /\ pc = "dashboard"
    /\ view' = v
    /\ sortField' = IF v = "table" /\ view = "table" THEN sortField ELSE "createdAt"
    /\ sortDirection' = IF v = "table" /\ view = "table" THEN sortDirection ELSE "desc"
    /\ UNCHANGED <<jobs, engine, grouped, rows, call, pc>>
    /\ UNCHANGED storeVars
    /\ UNCHANGED clientVars
    /\ UNCHANGED queueVars

\* a column header of the table
HandleSort(field) ==
    /\ pc = "dashboard"
    /\ view = "table"
    /\ \E st \in { handleSort(sortField, sortDirection, field) } :
          /\ sortField' = st.field
          /\ sortDirection' = st.direction
    /\ UNCHANGED <<jobs, view, engine, grouped, rows, call, pc>>
    /\ UNCHANGED storeVars
    /\ UNCHANGED clientVars
    /\ UNCHANGED queueVars

\* a click handler that marks the clicked job as seen in the collection
JobClick_touch(i) ==
    /\ pc = "dashboard"
    /\ i \in DOMAIN jobs
    /\ jobs' = [jobs EXCEPT ![i].note = "seen"]
    /\ UNCHANGED <<view, sortField, sortDirection, engine, grouped, rows, call, pc>>
    /\ UNCHANGED storeVars
    /\ UNCHANGED clientVars
    /\ UNCHANGED queueVars

\* handleJobClick: console.log only
JobClick(i) ==
    /\ pc = "dashboard"
    /\ i \in DOMAIN jobs
    /\ UNCHANGED vars

\* handleAddJob: console.log only
AddJob ==
    /\ pc = "dashboard"
    /\ UNCHANGED vars

Next ==
    \/ \E i \in DOMAIN jobs, k \in DOMAIN STATUS_CONFIG_KEYS : StatusChange(i, k)
    \/ \E v \in {"kanban", "table"} : SetView(v)
    \/ \E field \in SortFields : HandleSort(field)
    \/ \E i \in DOMAIN jobs : JobClick(i)
    \/ AddJob

Spec == Init /\ [][Next]_vars

(***************************************************************************)
(* Inputs of the component specifications                                  *)
(***************************************************************************)
IdOf == <<"1", "2", "3", "4", "5", "6">>

\* collections of up to max jobs with any mix of statuses, ids in
\* ascending or descending order
KanbanInputs(max) ==
    UNION { { [i \in 1..n |->
                 [id |-> IdOf[IF rev THEN n + 1 - i ELSE i], company |-> "Acme",
                  position |-> "Software Engineer", status |-> st[i],
                  salary |-> NULL, note |-> NULL, createdAt |-> 19737]]
              : st \in [1..n -> JobStatus], rev \in BOOLEAN }
            : n \in 0..max }

\* jobs with equal keys up to letter case, equal instants, and empty strings
JobPool ==
    { [id |-> "1", company |-> "acme", position |-> "Software Engineer",
       status |-> "APPLIED", salary |-> NULL, note |-> NULL, createdAt |-> 19737],
      [id |-> "2", company |-> "Acme", position |-> "",
       status |-> "APPLIED", salary |-> NULL, note |-> NULL, createdAt |-> 19737],
      [id |-> "3", company |-> "", position |-> "",
       status |-> "OFFER", salary |-> NULL, note |-> NULL, createdAt |-> 19727],
      [id |-> "4", company |-> "", position |-> "iOS Developer",
       status |-> "HIRED", salary |-> NULL, note |-> NULL, createdAt |-> 19742],
      [id |-> "5", company |-> "Zeta", position |-> "Frontend Developer",
       status |-> "OFFER", salary |-> NULL, note |-> NULL, createdAt |-> 19732],
      [id |-> "6", company |-> "beta", position |-> "Software Engineer",
       status |-> "NO_RESPONSE", salary |-> NULL, note |-> NULL, createdAt |-> 19740] }

\* sequences of up to MaxJobs distinct jobs of the pool
TableInputs ==
    UNION { { js \in [1..n -> JobPool] : \A i, j \in 1..n : i # j => js[i] # js[j] }
            : n \in 0..MaxJobs }

HarnessIdle ==
    /\ view = "kanban"
    /\ call = NULL
    /\ StoreIdle
    /\ QueueIdle
    /\ ClientIdle

(***************************************************************************)
(* SpecKanban: KanbanBoard rendered with any jobs prop                     *)
(***************************************************************************)
InitKanban ==
    /\ jobs \in KanbanInputs(MaxJobs)
    /\ sortField = "createdAt"
    /\ sortDirection = "desc"
    /\ engine = "timsort"
    /\ grouped = NULL
    /\ rows = NULL
    /\ pc = "props"
    /\ HarnessIdle

RenderKanban ==
    /\ pc = "props"
    /\ grouped' = jobsByStatus(jobs)
    /\ pc' = "rendered"
    /\ UNCHANGED <<jobs, view, sortField, sortDirection, engine, rows, call>>
    /\ UNCHANGED storeVars
    /\ UNCHANGED clientVars
    /\ UNCHANGED queueVars

NextKanban == RenderKanban

SpecKanban == InitKanban /\ [][NextKanban]_vars

(***************************************************************************)
(* SpecTable: JobsTable rendered with any jobs prop and sort state         *)
(***************************************************************************)
InitTable ==
    /\ jobs \in TableInputs
    /\ sortField \in SortFields
    /\ sortDirection \in SortDirections
    /\ engine \in Engines
    /\ grouped = NULL
    /\ rows = NULL
    /\ pc = "props"
    /\ HarnessIdle

RenderTable ==
    /\ pc = "props"
    /\ \E memo \in { sortedJobs(jobs, sortField, sortDirection, engine) } :
          /\ jobs' = memo.input
          /\ rows' = memo.output
    /\ pc' = "rendered"
    /\ UNCHANGED <<view, sortField, sortDirection, engine, grouped, call>>
    /\ UNCHANGED storeVars
    /\ UNCHANGED clientVars
    /\ UNCHANGED queueVars

NextTable == RenderTable

SpecTable == InitTable /\ [][NextTable]_vars

(***************************************************************************)
(* SpecHandler: handleStatusChange called with any arguments               *)
(***************************************************************************)
\* ids of the pool, and one that no job has
CallIds == { j.id : j \in JobPool } \cup {"99"}

\* the handler has no throw and no return value: every call ends normally
handleStatusChangeOutcome(prevJobs, jobId, newStatus) == "ok"

InitHandler ==
    /\ jobs \in TableInputs
    /\ sortField = "createdAt"
    /\ sortDirection = "desc"
    /\ engine = "timsort"
    /\ grouped = NULL
    /\ rows = NULL
    /\ pc = "props"
    /\ HarnessIdle

CallStatusChange(jobId, newStatus) ==
    /\ pc = "props"
    /\ jobs' = handleStatusChange(jobs, jobId, newStatus)
    /\ call' = [jobId |-> jobId, newStatus |-> newStatus, prevJobs |-> jobs,
                outcome |-> handleStatusChangeOutcome(jobs, jobId, newStatus)]
    /\ pc' = "called"
    /\ UNCHANGED <<view, sortField, sortDirection, engine, grouped, rows>>
    /\ UNCHANGED storeVars
    /\ UNCHANGED clientVars
    /\ UNCHANGED queueVars

NextHandler == \E jobId \in CallIds, newStatus \in JobStatus : CallStatusChange(jobId, newStatus)

SpecHandler == InitHandler /\ [][NextHandler]_vars

(***************************************************************************)
(* SpecUpdates: status-change requests through React's update queue        *)
(*                                                                         *)
(* A call of handleStatusChange only enqueues the updater it passes to     *)
(* setJobs; React processes the queue in order, handing each updater the   *)
(* state the previous one returned. A request may be issued while earlier  *)
(* ones are still queued.                                                  *)
(***************************************************************************)
MaxRequests == 2

\* the requests issued: jobs of the mock collection, a few of the statuses
RequestIds == {"1", "2", "5"}
RequestStatuses == {"OFFER", "HIRED", "REJECTED"}

InitUpdates ==
    /\ jobs = MOCK_JOBS
    /\ sortField = "createdAt"
    /\ sortDirection = "desc"
    /\ engine = "timsort"
    /\ grouped = NULL
    /\ rows = NULL
    /\ pc = "updates"
    /\ HarnessIdle

\* handleStatusChange(jobId, newStatus): setJobs(updater) puts the updater on the queue
Dispatch(jobId, newStatus) ==
    /\ pc = "updates"
    /\ Len(pending) + Len(applied) < MaxRequests
    /\ pending' = Append(pending, [jobId |-> jobId, newStatus |-> newStatus,
                                    renderedJobs |-> jobs])
    /\ UNCHANGED <<jobs, view, sortField, sortDirection, engine, grouped, rows, call, pc>>
    /\ UNCHANGED applied
    /\ UNCHANGED storeVars
    /\ UNCHANGED clientVars

\* React processes the updater at the head of the queue
ProcessUpdate ==
    /\ pc = "updates"
    /\ pending # <<>>
    /\ jobs' = setJobsUpdater(Head(pending).renderedJobs, jobs,
                               Head(pending).jobId, Head(pending).newStatus)
    /\ pending' = Tail(pending)
    /\ applied' = Append(applied, Head(pending))
    /\ UNCHANGED <<view, sortField, sortDirection, engine, grouped, rows, call, pc>>
    /\ UNCHANGED storeVars
    /\ UNCHANGED clientVars

NextUpdates ==
    \/ \E jobId \in RequestIds, newStatus \in RequestStatuses : Dispatch(jobId, newStatus)
    \/ ProcessUpdate

SpecUpdates == InitUpdates /\ [][NextUpdates]_vars

(***************************************************************************)
(* SpecStore: the relational schema                                        *)
(*                                                                         *)
(* auth.users(id PK); profiles(id PK -> auth.users ON DELETE CASCADE);     *)
(* jobs(id PK DEFAULT random, user_id NOT NULL -> profiles ON DELETE       *)
(* CASCADE, company NOT NULL, position NOT NULL, status NOT NULL DEFAULT   *)
(* 'APPLYING', created_at NOT NULL DEFAULT now()). The nullable columns    *)
(* without constraints (display_name, avatar_url, url, salary,             *)
(* job_description, note) take no part in any constraint and are left out. *)
(***************************************************************************)
UserIds == {"u1", "u2"}
Uuids == {"j1", "j2"}

\* a column the statement does not mention
DEFAULT == "<default>"

\* what a statement may give for each column of jobs
GivenUserIds == UserIds
GivenCompanies == {NULL, "", "Acme"}
GivenPositions == {"", "Engineer"}
GivenStatuses == {DEFAULT, "OFFER"}

\* defaultNow(): the time of the statement, never null
defaultNow == "now()"

\* the row an INSERT INTO jobs builds: defaults filled in for absent columns
jobsRow(uuid, userId, company, position, status) ==
    [id |-> uuid,
     userId |-> userId,
     company |-> company,
     position |-> position,
     status |-> IF status = DEFAULT THEN "APPLYING" ELSE status,
     createdAt |-> defaultNow]

\* the constraints of a jobs table whose id is no key
jobsConstraints_noKey(row, tbl, profs) ==
    IF row.userId = NULL \/ row.company = NULL \/ row.position = NULL
    THEN "not_null_violation"
    ELSE IF row.userId \notin profs THEN "foreign_key_violation"
    ELSE "ok"

\* the constraint the row breaks in table tbl, or "ok"; id and created_at are
\* always filled in by their defaults, so their NOT NULL cannot fail
jobsConstraints(row, tbl, profs) ==
    IF row.userId = NULL \/ row.company = NULL \/ row.position = NULL
    THEN "not_null_violation"
    ELSE IF row.status \notin jobStatusEnum THEN "invalid_enum_value"
    ELSE IF \E r \in tbl : r.id = row.id THEN "unique_violation"
    ELSE IF row.userId \notin profs THEN "foreign_key_violation"
    ELSE "ok"

\* a foreign key without ON DELETE CASCADE that lets the parent go
cascadeJobs_noAction(tbl, gone) == tbl

\* ON DELETE CASCADE of jobs.user_id: the jobs left when profiles gone are deleted
cascadeJobs(tbl, gone) == { r \in tbl : r.userId \notin gone }

\* ON DELETE CASCADE of profiles.id: the profiles left when users gone are deleted
cascadeProfiles(profs, gone) == { p \in profs : p \notin gone }

InitStore ==
    /\ authUsers = {}
    /\ profiles = {}
    /\ jobsTable = {}
    /\ last = [stmt |-> "none", outcome |-> "ok"]
    /\ jobs = <<>>
    /\ view = "kanban"
    /\ sortField = "createdAt"
    /\ sortDirection = "desc"
    /\ engine = "timsort"
    /\ grouped = NULL
    /\ rows = NULL
    /\ call = NULL
    /\ pc = "store"
    /\ QueueIdle
    /\ ClientIdle

\* the identity provider creates an account
InsertAuthUser(u) ==
    /\ pc = "store"
    /\ IF u \in authUsers
       THEN /\ last' = [stmt |-> "insertAuthUser", outcome |-> "unique_violation"]
            /\ UNCHANGED authUsers
       ELSE /\ last' = [stmt |-> "insertAuthUser", outcome |-> "ok"]
            /\ authUsers' = authUsers \cup {u}
    /\ UNCHANGED <<profiles, jobsTable>>
    /\ UNCHANGED uiVars
    /\ UNCHANGED clientVars
    /\ UNCHANGED queueVars

\* the identity provider deletes an account: its profile goes with it, and the
\* jobs of that profile with the profile
DeleteAuthUser(u) ==
    /\ pc = "store"
    /\ authUsers' = authUsers \ {u}
    /\ profiles' = cascadeProfiles(profiles, authUsers \ authUsers')
    /\ jobsTable' = cascadeJobs(jobsTable, profiles \ profiles')
    /\ last' = [stmt |-> "deleteAuthUser", outcome |-> "ok",
                deleted |-> Cardinality(jobsTable \ jobsTable')]
    /\ UNCHANGED uiVars
    /\ UNCHANGED clientVars
    /\ UNCHANGED queueVars

InsertProfile(u) ==
    /\ pc = "store"
    /\ IF u \in profiles
       THEN /\ last' = [stmt |-> "insertProfile", outcome |-> "unique_violation"]
            /\ UNCHANGED profiles
       ELSE IF u \notin authUsers
       THEN /\ last' = [stmt |-> "insertProfile", outcome |-> "foreign_key_violation"]
            /\ UNCHANGED profiles
       ELSE /\ last' = [stmt |-> "insertProfile", outcome |-> "ok"]
            /\ profiles' = profiles \cup {u}
    /\ UNCHANGED <<authUsers, jobsTable>>
    /\ UNCHANGED uiVars
    /\ UNCHANGED clientVars
    /\ UNCHANGED queueVars

DeleteProfile(u) ==
    /\ pc = "store"
    /\ profiles' = profiles \ {u}
    /\ jobsTable' = cascadeJobs(jobsTable, profiles \ profiles')
    /\ last' = [stmt |-> "deleteProfile", outcome |-> "ok",
                deleted |-> Cardinality(jobsTable \ jobsTable')]
    /\ UNCHANGED authUsers
    /\ UNCHANGED uiVars
    /\ UNCHANGED clientVars
    /\ UNCHANGED queueVars

\* INSERT INTO jobs; uuid is what gen_random_uuid() returns
InsertJob(uuid, userId, company, position, status) ==
    /\ pc = "store"
    /\ \E row \in { jobsRow(uuid, userId, company, position, status) } :
       \E outcome \in { jobsConstraints(row, jobsTable, profiles) } :
          /\ jobsTable' = IF outcome = "ok" THEN jobsTable \cup {row} ELSE jobsTable
          /\ last' = [stmt |-> "insertJob", userId |-> userId, company |-> company,
                      position |-> position, status |-> status, outcome |-> outcome]
    /\ UNCHANGED <<authUsers, profiles>>
    /\ UNCHANGED uiVars
    /\ UNCHANGED clientVars
    /\ UNCHANGED queueVars

DeleteJob(uuid) ==
    /\ pc = "store"
    /\ jobsTable' = { r \in jobsTable : r.id # uuid }
    /\ last' = [stmt |-> "deleteJob", outcome |-> "ok"]
    /\ UNCHANGED <<authUsers, profiles>>
    /\ UNCHANGED uiVars
    /\ UNCHANGED clientVars
    /\ UNCHANGED queueVars

NextStore ==
    \/ \E u \in UserIds : InsertAuthUser(u)
    \/ \E u \in UserIds : DeleteAuthUser(u)
    \/ \E u \in UserIds : InsertProfile(u)
    \/ \E u \in UserIds : DeleteProfile(u)
    \/ \E uuid \in Uuids, userId \in GivenUserIds, company \in GivenCompanies,
          position \in GivenPositions, status \in GivenStatuses :
          InsertJob(uuid, userId, company, position, status)
    \/ \E uuid \in Uuids : DeleteJob(uuid)

SpecStore == InitStore /\ [][NextStore]_vars

\* the body a table with no rows renders without its guard for the empty case
TableBodyRows_noGuard(sorted) ==
    [kind |-> "rows", cells |-> [i \in DOMAIN sorted |-> sorted[i].id]]

\* <TableBody>: the empty-state row when sortedJobs is empty, else a row per job
TableBodyRows(sorted) ==
    IF Len(sorted) = 0
    THEN [kind |-> "empty", cells |-> <<"No jobs found. Start adding your applications!">>]
    ELSE [kind |-> "rows", cells |-> [i \in DOMAIN sorted |-> sorted[i].id]]

(***************************************************************************)
(* SpecAuth: the auth hooks, the sign-up form and authRouter               *)
(*                                                                         *)
(* A mutation goes through three steps: the client calls mutate (the       *)
(* request is sent and the hook is pending), the procedure of authRouter   *)
(* runs on the server (it calls the identity provider and returns or       *)
(* throws), and the client settles the mutation (onSuccess / onError of    *)
(* the hook, then the render and its effects). Requests are those whose    *)
(* input passed the procedure's input schema: the resolver does not run    *)
(* for any other.                                                          *)
(***************************************************************************)
MaxAuthRequests == 2

Procedures == {"signUp", "login", "logout"}
Routes == {"/login", "/signup", "/dashboard"}

\* the error messages the identity provider reports
ProviderErrors == {"Invalid login credentials", "User already registered"}

\* { data, error } of supabase.auth.signUp / signInWithPassword / signOut
ProviderResults == {[error |-> NULL]} \cup { [error |-> m] : m \in ProviderErrors }

\* a procedure that reports success whatever the provider returned
authProcedure_swallow(proc, result) ==
    [threw |-> FALSE, code |-> NULL, success |-> TRUE,
     message |-> IF proc = "signUp" THEN "Account created successfully" ELSE NULL,
     providerCalls |-> 1]

\* signUp / login / logout of authRouter: one call of the provider, then a
\* TRPCError with the provider's message, or the success object
authProcedure(proc, result) ==
    IF result.error # NULL
    THEN [threw |-> TRUE,
          code |-> IF proc = "login" THEN "UNAUTHORIZED" ELSE "INTERNAL_SERVER_ERROR",
          success |-> FALSE,
          message |-> result.error,
          providerCalls |-> 1]
    ELSE [threw |-> FALSE, code |-> NULL, success |-> TRUE,
          message |-> IF proc = "signUp" THEN "Account created successfully" ELSE NULL,
          providerCalls |-> 1]

\* router.push(url); router.refresh()
pushAndRefresh(a, url) ==
    [a EXCEPT !.route = url, !.nav = @ \o <<"push:" \o url, "refresh">>]

\* router.push(url) alone
pushOnly(a, url) == [a EXCEPT !.route = url, !.nav = Append(@, "push:" \o url)]

\* toast.success(message) / toast.error(message)
toast(a, kind, message) == [a EXCEPT !.toasts = Append(@, [kind |-> kind, message |-> message])]

\* useSignUp: onSuccess / onError
useSignUp(a, response) ==
    IF response.threw THEN toast(a, "error", response.message)
    ELSE toast(a, "success", response.message)

\* useLogin: onSuccess / onError
useLogin(a, response) ==
    IF response.threw THEN toast(a, "error", response.message)
    ELSE pushAndRefresh(a, "/dashboard")

\* a logout hook that does not refresh after the push
useLogout_noRefresh(a, response) ==
    IF response.threw THEN toast(a, "error", response.message)
    ELSE pushOnly(a, "/login")

\* useLogout: onSuccess / onError
useLogout(a, response) ==
    IF response.threw THEN toast(a, "error", response.message)
    ELSE pushAndRefresh(a, "/login")

\* the callbacks of the hook of procedure proc
hookCallbacks(a, proc, response) ==
    IF proc = "signUp" THEN useSignUp(a, response)
    ELSE IF proc = "login" THEN useLogin(a, response)
    ELSE useLogout(a, response)

\* status and error of the hook after its latest mutation settled
mutationResult(a, proc, response) ==
    [a EXCEPT !.status[proc] = IF response.threw THEN "error" ELSE "success",
              !.error[proc] = IF response.threw THEN response.message ELSE NULL]

\* a submit button that is never disabled
submitDisabled_never(isPending) == FALSE

\* <Button type="submit" disabled={isPending}>
submitDisabled(isPending) == isPending

\* an effect that resets the form whenever the mutation has settled
signupFormEffect_onSettled(form, wasSuccess, isSuccess) == "empty"

\* useEffect(() => { if (isSuccess) form.reset() }, [isSuccess, form]): runs
\* when isSuccess has changed, and gives the form values after it
signupFormEffect(form, wasSuccess, isSuccess) ==
    IF isSuccess /\ ~wasSuccess THEN "empty" ELSE form

\* the alerts the sign-up form shows: {isError && ...} {isSuccess && ...}
signupAlerts(a) ==
    IF a.status["signUp"] = "error" THEN {[variant |-> "error", description |-> a.error["signUp"]]}
    ELSE IF a.status["signUp"] = "success"
    THEN {[variant |-> "success", description |-> "We have sent a confirmation link to your inbox."]}
    ELSE {}

\* index of the latest request of procedure proc, or 0
latestOf(requests, proc) ==
    IF \E n \in DOMAIN requests : requests[n].proc = proc
    THEN CHOOSE n \in DOMAIN requests :
            /\ requests[n].proc = proc
            /\ \A m \in DOMAIN requests : requests[m].proc = proc => m <= n
    ELSE 0

InitAuth ==
    /\ auth \in { [route |-> r, nav |-> <<>>, toasts |-> <<>>, form |-> "empty",
                   status |-> [p \in Procedures |-> "idle"],
                   error |-> [p \in Procedures |-> NULL],
                   requests |-> <<>>] : r \in Routes }
    /\ alert = NULL
    /\ jobs = <<>>
    /\ view = "kanban"
    /\ sortField = "createdAt"
    /\ sortDirection = "desc"
    /\ engine = "timsort"
    /\ grouped = NULL
    /\ rows = NULL
    /\ call = NULL
    /\ pc = "auth"
    /\ StoreIdle
    /\ QueueIdle

AuthFrame ==
    /\ UNCHANGED alert
    /\ UNCHANGED uiVars
    /\ UNCHANGED storeVars
    /\ UNCHANGED queueVars

\* the user fills in the fields of the sign-up form with values the schema accepts
FillForm ==
    /\ pc = "auth"
    /\ auth.form = "empty"
    /\ auth' = [auth EXCEPT !.form = "filled"]
    /\ AuthFrame

\* mutate(input) of the hook of procedure proc: the request is sent
mutate(a, proc) ==
    [a EXCEPT !.status[proc] = "pending",
              !.error[proc] = NULL,
              !.requests = Append(@, [proc |-> proc, phase |-> "sent",
                                      result |-> NULL, response |-> NULL,
                                      routeAtSend |-> a.route,
                                      formAtSend |-> a.form])]

\* the submit button of the sign-up form: handleSubmit validates, onSubmit
\* calls signup(data)
SubmitSignUp ==
    /\ pc = "auth"
    /\ Len(auth.requests) < MaxAuthRequests
    /\ auth.form = "filled"
    /\ ~submitDisabled(auth.status["signUp"] = "pending")
    /\ auth' = mutate(auth, "signUp")
    /\ AuthFrame

\* a component calls mutate of useLogin or useLogout
Mutate(proc) ==
    /\ pc = "auth"
    /\ proc \in {"login", "logout"}
    /\ Len(auth.requests) < MaxAuthRequests
    /\ auth' = mutate(auth, proc)
    /\ AuthFrame

\* the server runs the procedure of request n; the provider returns result
Resolve(n, result) ==
    /\ pc = "auth"
    /\ n \in DOMAIN auth.requests
    /\ auth.requests[n].phase = "sent"
    /\ auth' = [auth EXCEPT !.requests[n].phase = "responded",
                            !.requests[n].result = result,
                            !.requests[n].response =
                                authProcedure(auth.requests[n].proc, result)]
    /\ AuthFrame

\* the client receives the response of request n: the callbacks of the hook run,
\* the hook's state follows its latest mutation, the form renders and its
\* effect runs
Settle(n) ==
    /\ pc = "auth"
    /\ n \in DOMAIN auth.requests
    /\ auth.requests[n].phase = "responded"
    /\ \E proc \in {auth.requests[n].proc}, response \in {auth.requests[n].response} :
       \E called \in { hookCallbacks(auth, proc, response) } :
       \E settled \in { IF latestOf(auth.requests, proc) = n
                        THEN mutationResult(called, proc, response)
                        ELSE called } :
          auth' = [settled EXCEPT
                      !.requests[n].phase = "settled",
                      !.form = signupFormEffect(settled.form,
                                                auth.status["signUp"] = "success",
                                                settled.status["signUp"] = "success")]
    /\ AuthFrame

NextAuth ==
    \/ FillForm
    \/ SubmitSignUp
    \/ \E proc \in {"login", "logout"} : Mutate(proc)
    \/ \E n \in 1..MaxAuthRequests, result \in ProviderResults : Resolve(n, result)
    \/ \E n \in 1..MaxAuthRequests : Settle(n)

SpecAuth == InitAuth /\ [][NextAuth]_vars

(***************************************************************************)
(* SpecAlert: DismissibleAlert                                             *)
(*                                                                         *)
(* One mounted component: its parent may render it again with other props  *)
(* (the state isActive is kept), and the user may click the dismiss button *)
(* when it is rendered.                                                    *)
(***************************************************************************)
\* the props a parent passes: variant, dismissible, whether onDismiss is given,
\* and a description
AlertProps ==
    [variant : {"warning", "info", "success", "error"},
     dismissible : BOOLEAN,
     hasOnDismiss : BOOLEAN,
     description : {"Invalid login credentials", "User already registered", "Saved"}]

\* a component without the early return for a dismissed alert
alertRender_always(al) == [output |-> "alert", button |-> al.props.dismissible]

\* what the component renders: null after a dismiss, else the alert, with the
\* dismiss button when dismissible
alertRender(al) ==
    IF ~al.isActive THEN [output |-> "null", button |-> FALSE]
    ELSE [output |-> "alert", button |-> al.props.dismissible]

\* handleDismiss: setIsActive(false); onDismiss?.()
handleDismiss(al) ==
    [al EXCEPT !.isActive = FALSE,
               !.dismisses = @ + 1,
               !.onDismissCalls = IF al.props.hasOnDismiss THEN @ + 1 ELSE @]

InitAlert ==
    /\ alert \in { [props |-> p, isActive |-> TRUE, dismisses |-> 0, onDismissCalls |-> 0]
                   : p \in AlertProps }
    /\ auth = NULL
    /\ jobs = <<>>
    /\ view = "kanban"
    /\ sortField = "createdAt"
    /\ sortDirection = "desc"
    /\ engine = "timsort"
    /\ grouped = NULL
    /\ rows = NULL
    /\ call = NULL
    /\ pc = "alert"
    /\ StoreIdle
    /\ QueueIdle

AlertFrame ==
    /\ UNCHANGED auth
    /\ UNCHANGED uiVars
    /\ UNCHANGED storeVars
    /\ UNCHANGED queueVars

\* the parent renders the alert again with props p
RerenderAlert(p) ==
    /\ pc = "alert"
    /\ alert' = [alert EXCEPT !.props = p]
    /\ AlertFrame

\* a click on the dismiss button, which is there only when it is rendered
ClickDismiss ==
    /\ pc = "alert"
    /\ alertRender(alert).button
    /\ alert' = handleDismiss(alert)
    /\ AlertFrame

NextAlert ==
    \/ \E p \in AlertProps : RerenderAlert(p)
    \/ ClickDismiss

SpecAlert == InitAlert /\ [][NextAlert]_vars

(***************************************************************************)
(* Properties                                                              *)
(***************************************************************************)
\* the eleven values of the status enumeration
ElevenStatuses ==
    {"APPLYING", "APPLIED", "FOR_INTERVIEW", "INTERVIEWING", "OFFER", "NEGOTIATING",
     "HIRED", "ON_HOLD", "REJECTED", "NO_RESPONSE", "WITHDRAW"}

\* places <<status, index>> of the kanban grouping g
Places(g) == UNION { { <<s, k>> : k \in DOMAIN g[s] } : s \in ElevenStatuses }

\* C1: the kanban grouping is a partition of the input: the bucket lengths add up
\* to the number of jobs, and every job id sits at exactly one place of the
\* grouping, in the bucket keyed by the job's status.
C1_KanbanPartition ==
    pc = "rendered" =>
        /\ Cardinality(Places(grouped)) = Len(jobs)
        /\ \A i \in DOMAIN jobs :
              /\ Cardinality({ pl \in Places(grouped) :
                                  grouped[pl[1]][pl[2]].id = jobs[i].id }) = 1
              /\ \E k \in 1..Len(grouped[jobs[i].status]) :
                    grouped[jobs[i].status][k] = jobs[i]

\* three jobs, two of them in one bucket, have been grouped
C1_Witness ==
    /\ pc = "rendered"
    /\ Len(jobs) = 3
    /\ jobs[1].status = "OFFER" /\ jobs[2].status = "HIRED" /\ jobs[3].status = "OFFER"
    /\ Len(grouped["OFFER"]) = 2

\* C2: in every reachable state of the dashboard every job has a status, and it is
\* one of the eleven values of the enumeration.
C2_StatusInEnumeration ==
    \A i \in DOMAIN jobs :
        /\ "status" \in DOMAIN jobs[i]
        /\ jobs[i].status \in ElevenStatuses

\* a status change has moved a job away from its mock status
C2_Witness ==
    \E i \in DOMAIN jobs : jobs[i].status \notin {MOCK_JOBS[i].status, "WITHDRAW"}

\* C3 (as claimed): a status update whose id matches no record of the requester
\* fails with NotFound and changes nothing; one whose id matches leaves the record
\* with the new status.
C3_UpdateStatusNotFound ==
    pc = "called" =>
        IF \E i \in DOMAIN call.prevJobs : call.prevJobs[i].id = call.jobId
        THEN /\ call.outcome = "ok"
             /\ \A i \in DOMAIN jobs : jobs[i].id = call.jobId => jobs[i].status = call.newStatus
        ELSE /\ call.outcome = "NotFound"
             /\ jobs = call.prevJobs

\* C4 (as claimed): an insert of a job whose company or position is empty fails.
C4_CreateJobRejectsEmpty ==
    (last.stmt = "insertJob" /\ (last.company = "" \/ last.position = ""))
        => last.outcome # "ok"

\* C5: a successful insert of a job with non-empty company and position adds
\* exactly one row; the row is owned by the given owner, has status APPLYING when
\* no status was given, a non-null createdAt, and an id no stored row had.
C5_CreateJobAddsOne ==
    [][ ( /\ last'.stmt = "insertJob"
          /\ last'.outcome = "ok"
          /\ last'.company \notin {NULL, ""}
          /\ last'.position \notin {NULL, ""} )
        => \E r \in jobsTable' :
              /\ r \notin jobsTable
              /\ jobsTable' = jobsTable \cup {r}
              /\ Cardinality(jobsTable') = Cardinality(jobsTable) + 1
              /\ r.userId = last'.userId
              /\ r.company = last'.company /\ r.position = last'.position
              /\ (last'.status = DEFAULT => r.status = "APPLYING")
              /\ r.createdAt # NULL
              /\ \A q \in jobsTable : q.id # r.id ]_vars

\* a second job has been inserted with no status given
C5_Witness ==
    /\ last.stmt = "insertJob" /\ last.outcome = "ok"
    /\ last.company = "Acme" /\ last.position = "Engineer" /\ last.status = DEFAULT
    /\ Cardinality(jobsTable) = 2

\* C6: every job references an existing profile and every profile an existing
\* account, always; when profiles are deleted exactly the jobs referencing them
\* go, and when accounts are deleted exactly their profiles go.
C6_ReferentialIntegrity ==
    /\ [](/\ \A r \in jobsTable : r.userId \in profiles
          /\ \A p \in profiles : p \in authUsers)
    /\ [][ /\ (profiles \ profiles' # {}) =>
                jobsTable' = { r \in jobsTable : r.userId \notin (profiles \ profiles') }
           /\ (authUsers \ authUsers' # {}) =>
                profiles' = profiles \ (authUsers \ authUsers') ]_vars

\* deleting an account has removed jobs while a job of another owner is stored
C6_Witness ==
    /\ last.stmt = "deleteAuthUser"
    /\ last.deleted >= 1
    /\ jobsTable # {}

\* C7: from every reachable state, for every job and every one of the eleven
\* statuses (the job's own included), the status change is enabled and leaves the
\* job with that status (within the bound on moved jobs).
C7_TransitionsTotal ==
    \A i \in DOMAIN jobs, s \in ElevenStatuses :
        \E k \in DOMAIN STATUS_CONFIG_KEYS :
            /\ STATUS_CONFIG_KEYS[k] = s
            /\ (Moved([jobs EXCEPT ![i].status = s]) <= MaxMoved)
                  => ENABLED (StatusChange(i, k) /\ jobs'[i].status = s)

\* a job has been moved to the last status of the menu
C7_Witness ==
    \E i \in DOMAIN jobs : jobs[i].status = "WITHDRAW"

\* C8: a status change on job id j changes nothing but the status of the records
\* with id j: the number of records, their order, every other field of every
\* record and the status of the records with another id stay as they were.
C8_StatusChangeFrame ==
    [][ \A i \in DOMAIN jobs, k \in DOMAIN STATUS_CONFIG_KEYS :
            StatusChange(i, k) =>
                /\ Len(jobs') = Len(jobs)
                /\ \A n \in DOMAIN jobs :
                      /\ DOMAIN jobs'[n] = DOMAIN jobs[n]
                      /\ \A f \in DOMAIN jobs[n] \ {"status"} : jobs'[n][f] = jobs[n][f]
                      /\ jobs[n].id # jobs[i].id => jobs'[n].status = jobs[n].status
                /\ <<view, sortField, sortDirection>>' = <<view, sortField, sortDirection>>
      ]_vars

\* a status change has been made while the table is shown
C8_Witness ==
    /\ view = "table"
    /\ \E i \in DOMAIN jobs : jobs[i].status # MOCK_JOBS[i].status

\* how often job r occurs in the sequence js
Count(js, r) == Cardinality({ i \in DOMAIN js : js[i] = r })

\* C9: the sorted rows are a permutation of the jobs prop (same length, same
\* records as often), and rendering leaves the prop as it was.
C9_SortPermutes ==
    /\ [](pc = "rendered" =>
            /\ Len(rows) = Len(jobs)
            /\ \A r \in JobPool : Count(rows, r) = Count(jobs, r))
    /\ [][jobs' = jobs]_vars

\* three jobs have been sorted into another order
C9_Witness ==
    /\ pc = "rendered"
    /\ Len(jobs) = 3
    /\ rows # jobs

\* index of job r in the sequence js
IndexOf(js, r) == CHOOSE i \in DOMAIN js : js[i] = r

\* C10 (as claimed): jobs that compare equal keep their input order, and sorting
\* the sorted rows again gives the same rows.
C10_SortStableIdempotent ==
    pc = "rendered" =>
        /\ \A a, b \in DOMAIN jobs :
              (a < b /\ compareFn(jobs[a], jobs[b], sortField, sortDirection) = 0)
                  => IndexOf(rows, jobs[a]) < IndexOf(rows, jobs[b])
        /\ ArraySort(rows, sortField, sortDirection, engine) = rows

\* the value of row r for the field is missing: null or the empty string (a Date
\* is an object and is never missing)
Missing(r, field) == field # "createdAt" /\ r[field] \in {NULL, ""}

\* C11: in both directions and for every sort field, every row whose value for
\* the sort field is missing (null or the empty string) comes after every row
\* whose value is present, also when several rows have a missing value.
C11_MissingLast ==
    pc = "rendered" =>
        \A i, j \in DOMAIN rows :
            (Missing(rows[i], sortField) /\ ~Missing(rows[j], sortField)) => j < i

\* two jobs without a company came before one with a company and have been
\* sorted by company in descending direction
C11_Witness ==
    /\ pc = "rendered"
    /\ sortField = "company" /\ sortDirection = "desc"
    /\ Len(jobs) = 3
    /\ jobs[1].company = "" /\ jobs[2].company = "" /\ jobs[3].company # ""
    /\ rows[1] = jobs[3]

\* the key the table orders by: the instant of createdAt, the lower-cased
\* string of the other fields
Key(r, field) ==
    IF field = "createdAt" THEN r.createdAt
    ELSE [i \in 1..Len(Units(r[field])) |->
            IF Units(r[field])[i] \in 65..90 THEN Units(r[field])[i] + 32
            ELSE Units(r[field])[i]]

\* key x is before key y
KeyBefore(x, y, field) == IF field = "createdAt" THEN x < y ELSE StrLess(x, y)

\* C12: among the rows with a present value the order is by key (lower-cased
\* string, or instant): non-decreasing in ascending direction, non-increasing
\* in descending direction.
C12_KeyOrder ==
    pc = "rendered" =>
        \A i, j \in DOMAIN rows :
            ( /\ i < j
              /\ ~Missing(rows[i], sortField)
              /\ ~Missing(rows[j], sortField) )
            => IF sortDirection = "asc"
               THEN ~KeyBefore(Key(rows[j], sortField), Key(rows[i], sortField), sortField)
               ELSE ~KeyBefore(Key(rows[i], sortField), Key(rows[j], sortField), sortField)

\* companies that differ in letter case have been sorted in descending direction
C12_Witness ==
    /\ pc = "rendered"
    /\ sortField = "company" /\ sortDirection = "desc"
    /\ Len(jobs) = 3
    /\ jobs[1].company = "Acme" /\ jobs[2].company = "Zeta" /\ jobs[3].company = "beta"
    /\ rows[1].company = "Zeta" /\ rows[3].company = "Acme"

\* C13: a click on the header of field f: when f is the current sort field the
\* field stays and the direction flips; otherwise the field becomes f and the
\* direction asc, whatever the direction was.
C13_HandleSort ==
    [][ \A f \in SortFields :
            HandleSort(f) =>
                IF f = sortField
                THEN /\ sortField' = sortField
                     /\ sortDirection' = (IF sortDirection = "asc" THEN "desc" ELSE "asc")
                ELSE /\ sortField' = f
                     /\ sortDirection' = "asc"
      ]_vars

\* another field has been chosen and then toggled
C13_Witness ==
    /\ view = "table"
    /\ sortField = "position"
    /\ sortDirection = "desc"

\* C14: from every sort state of the table, two clicks in a row on the header of
\* the current field give back the same field and direction, and the rows shown
\* after them are the rows shown before.
C14_DoubleToggle ==
    view = "table" =>
        \E once \in { handleSort(sortField, sortDirection, sortField) } :
        \E twice \in { handleSort(once.field, once.direction, once.field) } :
            /\ twice.field = sortField
            /\ twice.direction = sortDirection
            /\ sortedJobs(jobs, twice.field, twice.direction, engine).output
                  = sortedJobs(jobs, sortField, sortDirection, engine).output

\* the status column has been toggled to descending after a status change
C14_Witness ==
    /\ view = "table"
    /\ sortField = "status"
    /\ sortDirection = "desc"
    /\ jobs # MOCK_JOBS

\* C15: whatever the input, the kanban grouping has exactly the eleven status
\* keys, each mapped to a (possibly empty) sequence of jobs, and no other key.
C15_ElevenKeys ==
    pc = "rendered" =>
        /\ DOMAIN grouped = ElevenStatuses
        /\ \A s \in ElevenStatuses : DOMAIN grouped[s] = 1..Len(grouped[s])

\* the empty collection has been grouped
C15_Witness ==
    /\ pc = "rendered"
    /\ jobs = <<>>
    /\ grouped["WITHDRAW"] = <<>>

\* C16: within each bucket the jobs are in their input order: for two jobs a and
\* b with the same status, a is before b in the bucket iff a is before b in the
\* input.
C16_BucketOrder ==
    pc = "rendered" =>
        \A a, b \in DOMAIN jobs :
            (a # b /\ jobs[a].status = jobs[b].status) =>
                \E ka, kb \in DOMAIN grouped[jobs[a].status] :
                    /\ grouped[jobs[a].status][ka] = jobs[a]
                    /\ grouped[jobs[a].status][kb] = jobs[b]
                    /\ (ka < kb) <=> (a < b)

\* three jobs of one status, given with descending ids, have been grouped
C16_Witness ==
    /\ pc = "rendered"
    /\ Len(jobs) = 3
    /\ jobs[1].id = "3" /\ jobs[3].id = "1"
    /\ \A i \in DOMAIN jobs : jobs[i].status = "ON_HOLD"
    /\ Len(grouped["ON_HOLD"]) = 3
    /\ grouped["ON_HOLD"][1].id = "3"

\* C17: in every reachable state of the dashboard, for every job, the lookup of the
\* job's status in STATUS_CONFIG is defined in the kanban view and in the table
\* view, and gives a label and a color: no lookup fails on any of the eleven
\* statuses.
C17_LabelLookupTotal ==
    /\ \A i \in DOMAIN jobs :
          /\ JobCardConfig(jobs[i]).threw = "none"
          /\ TableRowBadge(jobs[i]).threw = "none"
          /\ JobCardConfig(jobs[i]).label = TableRowBadge(jobs[i]).label
    /\ \A s \in ElevenStatuses :
          /\ statusBadge(STATUS_CONFIG, s).threw = "none"
          /\ statusBadge(TABLE_STATUS_CONFIG, s).threw = "none"

\* the table shows a job that has been moved to the last status of the literal
C17_Witness ==
    /\ view = "table"
    /\ \E i \in DOMAIN jobs :
          /\ jobs[i].status = "WITHDRAW"
          /\ TableRowBadge(jobs[i]).threw = "none"

\* C18: in every reachable state of the dashboard the kanban columns are the
\* eleven statuses, each exactly once, in the canonical order, whatever the job
\* collection holds and whatever status changes were made.
C18_ColumnsOrder ==
    /\ KanbanColumns(jobs) =
          <<"APPLYING", "APPLIED", "FOR_INTERVIEW", "INTERVIEWING", "OFFER",
            "NEGOTIATING", "HIRED", "ON_HOLD", "REJECTED", "NO_RESPONSE", "WITHDRAW">>
    /\ \A s \in ElevenStatuses :
          Cardinality({ k \in DOMAIN KanbanColumns(jobs) : KanbanColumns(jobs)[k] = s }) = 1

\* the board is shown after the only job of a column has been moved to a column
\* that was empty
C18_Witness ==
    /\ view = "kanban"
    /\ countWithStatus(jobs, "OFFER") = 0
    /\ countWithStatus(jobs, "HIRED") = 1

\* the requests processed so far that name job id
AppliedTo(id) == { n \in DOMAIN applied : applied[n].jobId = id }

\* C19: status-change requests are last-write-wins, none lost or rejected: in
\* every interleaving of issuing and processing, a further request can be issued
\* (within the bound), a queued request can be processed, and every job has the
\* status of the request processed last among those naming it (its mock status
\* when none did) -- so two requests on one job leave the status of the later
\* one and two requests on different jobs both take effect.
C19_LastWriteWins ==
    pc = "updates" =>
        /\ \A i \in DOMAIN jobs :
              IF AppliedTo(jobs[i].id) = {}
              THEN jobs[i] = MOCK_JOBS[i]
              ELSE \E n \in AppliedTo(jobs[i].id) :
                      /\ \A m \in AppliedTo(jobs[i].id) : m <= n
                      /\ jobs[i].status = applied[n].newStatus
        /\ (Len(pending) + Len(applied) < MaxRequests) =>
              \A id \in RequestIds, s \in RequestStatuses :
                  ENABLED (Dispatch(id, s) /\ Len(pending') = Len(pending) + 1)
        /\ (pending # <<>>) =>
              ENABLED (ProcessUpdate /\ Len(applied') = Len(applied) + 1)

\* two requests on different jobs were both issued before either was processed,
\* and both have been processed
C19_Witness ==
    /\ pc = "updates"
    /\ pending = <<>>
    /\ Len(applied) = 2
    /\ applied[1].jobId = "1" /\ applied[2].jobId = "2"
    /\ applied[1].renderedJobs = MOCK_JOBS /\ applied[2].renderedJobs = MOCK_JOBS
    /\ jobs[1].status = "HIRED" /\ jobs[2].status = "OFFER"

\* C20: the job collection has a single writer: a step of the dashboard that
\* changes the collection is a status change, and the other actions (board/list
\* switch, table sort, job click, Add Job) leave the collection as it was.
C20_SingleWriter ==
    [][ /\ (jobs' # jobs) =>
              \E i \in DOMAIN jobs, k \in DOMAIN STATUS_CONFIG_KEYS : StatusChange(i, k)
        /\ ( \/ \E v \in {"kanban", "table"} : SetView(v)
             \/ \E field \in SortFields : HandleSort(field)
             \/ \E i \in DOMAIN jobs : JobClick(i)
             \/ AddJob ) => jobs' = jobs
      ]_vars

\* the collection differs from the mock collection while the table is sorted by
\* company
C20_Witness ==
    /\ view = "table"
    /\ sortField = "company"
    /\ sortDirection = "asc"
    /\ jobs # MOCK_JOBS

\* the last toast shown
LastToast(a) == a.toasts[Len(a.toasts)]

\* C21: when a login, logout or sign-up mutation fails, the client does not
\* navigate (route and router calls stay as they were), the sign-up form keeps
\* its values, the state of the other hooks is untouched, and the message of the
\* error is shown: as a toast, and for the sign-up also in the form's error alert.
C21_FailedMutation ==
    [][ \A n \in 1..MaxAuthRequests :
            (Settle(n) /\ auth.requests[n].response.threw) =>
                /\ auth'.route = auth.route
                /\ auth'.nav = auth.nav
                /\ auth'.form = auth.form
                /\ \A p \in Procedures \ {auth.requests[n].proc} :
                      auth'.status[p] = auth.status[p]
                /\ Len(auth'.toasts) = Len(auth.toasts) + 1
                /\ LastToast(auth') = [kind |-> "error",
                                       message |-> auth.requests[n].response.message]
                /\ auth.requests[n].response.message = auth.requests[n].result.error
                /\ (auth.requests[n].proc = "signUp") =>
                      signupAlerts(auth') =
                          {[variant |-> "error",
                            description |-> auth.requests[n].result.error]}
      ]_vars

\* a sign-up has failed while the form was filled in, and a login has failed too
C21_Witness ==
    /\ pc = "auth"
    /\ auth.status["signUp"] = "error"
    /\ auth.status["login"] = "error"
    /\ auth.form = "filled"
    /\ Len(auth.toasts) = 2

\* C22: each request makes the procedure call the identity provider exactly
\* once; when the provider reports an error the procedure throws with the
\* provider's message (code UNAUTHORIZED for login, INTERNAL_SERVER_ERROR for
\* signUp and logout), and it returns success: true only when the provider
\* reported no error.
C22_ProviderErrors ==
    pc = "auth" =>
        \A n \in DOMAIN auth.requests :
            auth.requests[n].phase # "sent" =>
                \E result \in {auth.requests[n].result},
                   response \in {auth.requests[n].response} :
                    /\ response.providerCalls = 1
                    /\ (result.error # NULL) =>
                          /\ response.threw
                          /\ ~response.success
                          /\ response.message = result.error
                          /\ response.code = (IF auth.requests[n].proc = "login"
                                              THEN "UNAUTHORIZED"
                                              ELSE "INTERNAL_SERVER_ERROR")
                    /\ response.success => (result.error = NULL /\ ~response.threw)

\* the provider has rejected a login and accepted a logout
C22_Witness ==
    /\ pc = "auth"
    /\ Len(auth.requests) = 2
    /\ auth.requests[1].proc = "login" /\ auth.requests[1].phase # "sent"
    /\ auth.requests[2].proc = "logout" /\ auth.requests[2].phase # "sent"
    /\ auth.requests[1].response.code = "UNAUTHORIZED"
    /\ auth.requests[2].response.success

\* C23: for every sort field and direction the sort of an empty collection is
\* the empty sequence, and the table body is then the explicit empty-state row.
C23_EmptySort ==
    (pc = "rendered" /\ jobs = <<>>) =>
        /\ rows = <<>>
        /\ TableBodyRows(rows).kind = "empty"
        /\ Len(TableBodyRows(rows).cells) = 1

\* the empty collection has been rendered sorted by position, ascending, on the
\* insertion engine
C23_Witness ==
    /\ pc = "rendered"
    /\ jobs = <<>>
    /\ rows = <<>>
    /\ sortField = "position" /\ sortDirection = "asc" /\ engine = "insertion"

\* C24: in every reachable state of the dashboard the statistics cards, the
\* kanban board and the table agree: Total Applications is the sum of the eleven
\* bucket sizes and the number of table rows, and the Interviewing, Offers and
\* Hired counts are the sizes of the INTERVIEWING, OFFER and HIRED buckets.
C24_ViewsAgree ==
    \E cards \in { statsCards(jobs) },
       board \in { jobsByStatus(jobs) },
       table \in { sortedJobs(jobs, sortField, sortDirection, engine).output } :
        /\ cards.total = Cardinality(Places(board))
        /\ cards.total = Len(table)
        /\ cards.interviewing = Len(board["INTERVIEWING"])
        /\ cards.offers = Len(board["OFFER"])
        /\ cards.hired = Len(board["HIRED"])

\* a job has been moved to HIRED, a status no mock job has
C24_Witness ==
    /\ pc = "dashboard"
    /\ statsCards(jobs).hired = 1
    /\ statsCards(jobs).interviewing = 1
    /\ statsCards(jobs).offers = 1

SignUpsInFlight ==
    { n \in DOMAIN auth.requests :
        auth.requests[n].proc = "signUp" /\ auth.requests[n].phase # "settled" }

C27_DismissedOnce ==
    /\ [](pc = "alert" =>
            /\ (alert.dismisses = 0) <=> alert.isActive
            /\ alert.isActive <=> (alertRender(alert).output = "alert")
            /\ (ENABLED ClickDismiss) <=> (alert.isActive /\ alert.props.dismissible)
            /\ alert.dismisses <= 1
            /\ alert.onDismissCalls <= alert.dismisses)
    /\ [][ /\ ~alert.isActive => ~alert'.isActive
           /\ (alert'.dismisses # alert.dismisses) =>
                 /\ alert.isActive /\ alert.props.dismissible
                 /\ ~alert'.isActive
                 /\ alertRender(alert').output = "null"
                 /\ alert'.dismisses = alert.dismisses + 1
                 /\ alert'.onDismissCalls =
                       alert.onDismissCalls + (IF alert.props.hasOnDismiss THEN 1 ELSE 0)
         ]_vars

\* the alert was dismissed with onDismiss given, and the parent has rendered it
\* again as dismissible
C27_Witness ==
    /\ pc = "alert"
    /\ ~alert.isActive
    /\ alert.onDismissCalls = 1
    /\ alert.props.dismissible
    /\ alert.props.variant = "error"
    /\ ~alert.props.hasOnDismiss

\* C28: the keys of STATUS_CONFIG in the kanban board, the keys of STATUS_CONFIG
\* in the table and the values of the database enum job_status are the same
\* eleven values, the two maps give each status the same label, and so every
\* status a stored job has has a kanban bucket and a label in both views.
C28_EnumerationsAgree ==
    /\ DOMAIN STATUS_CONFIG = DOMAIN TABLE_STATUS_CONFIG
    /\ DOMAIN STATUS_CONFIG = jobStatusEnum
    /\ Cardinality(jobStatusEnum) = Len(STATUS_CONFIG_KEYS)
    /\ Cardinality(jobStatusEnum) = Cardinality(ElevenStatuses)
    /\ \A s \in jobStatusEnum :
          STATUS_CONFIG[s].label = TABLE_STATUS_CONFIG[s].label
    /\ \A r \in jobsTable :
          /\ r.status \in DOMAIN emptyGrouped
          /\ JobCardConfig(r).threw = "none"
          /\ TableRowBadge(r).threw = "none"
          /\ JobCardConfig(r).label = TableRowBadge(r).label

\* the store holds a job with the default status and one with a given status
C28_Witness ==
    /\ pc = "store"
    /\ \E r, q \in jobsTable : r.status = "APPLYING" /\ q.status = "OFFER"

\* C29: the status change applied a second time with the same (jobId, status)
\* gives the collection it gave the first time; two status changes on different
\* job ids give the same collection in either order; and a status change whose
\* jobId matches no job leaves every element of the collection as it was.
C29_StatusChangeAlgebra ==
    pc = "called" =>
        /\ call.outcome = "ok"
        /\ jobs = handleStatusChange(call.prevJobs, call.jobId, call.newStatus)
        /\ handleStatusChange(jobs, call.jobId, call.newStatus) = jobs
        /\ \A otherId \in { call.prevJobs[i].id : i \in DOMAIN call.prevJobs } \ {call.jobId},
              otherStatus \in JobStatus :
              handleStatusChange(jobs, otherId, otherStatus)
                = handleStatusChange(
                      handleStatusChange(call.prevJobs, otherId, otherStatus),
                      call.jobId, call.newStatus)
        /\ (\A i \in DOMAIN call.prevJobs : call.prevJobs[i].id # call.jobId) =>
              /\ Len(jobs) = Len(call.prevJobs)
              /\ \A i \in DOMAIN jobs : jobs[i] = call.prevJobs[i]

\* the first of three jobs has been given a status it did not have
C29_Witness ==
    /\ pc = "called"
    /\ Len(jobs) = 3
    /\ call.jobId = jobs[1].id
    /\ jobs[1].status = "NEGOTIATING"
    /\ call.prevJobs[1].status # "NEGOTIATING"

\* the sequence s in reverse order
Reverse(s) == [i \in DOMAIN s |-> s[Len(s) + 1 - i]]

\* the keys of the jobs on the field are all present and pairwise distinct
DistinctKeys(js, field) ==
    /\ \A i \in DOMAIN js : ~Missing(js[i], field)
    /\ \A i, j \in DOMAIN js :
          i # j => \/ KeyBefore(Key(js[i], field), Key(js[j], field), field)
                   \/ KeyBefore(Key(js[j], field), Key(js[i], field), field)

\* C30: the table's sort state starts at (createdAt, desc) and after any sequence
\* of header clicks the field is one of company, position, status, createdAt and
\* the direction asc or desc; and when the keys of the collection on the sort
\* field are all present and pairwise distinct, the rows in descending direction
\* are the rows in ascending direction in reverse.
C30_SortStateWellFormed ==
    /\ (sortField = "createdAt" /\ sortDirection = "desc")
    /\ [](/\ sortField \in {"company", "position", "status", "createdAt"}
          /\ sortDirection \in {"asc", "desc"}
          /\ DistinctKeys(jobs, sortField) =>
                sortedJobs(jobs, sortField, "desc", engine).output
                  = Reverse(sortedJobs(jobs, sortField, "asc", engine).output))

\* the mock collection, whose companies are all different, is shown in the
\* table by company in descending direction
C30_Witness ==
    /\ view = "table"
    /\ sortField = "company"
    /\ sortDirection = "desc"
    /\ jobs = MOCK_JOBS
    /\ DistinctKeys(jobs, sortField)

====
